---- MODULE Spec2Model ----
(***************************************************************************)
(* A model of SherlockChromes' 1-D region proposal network                 *)
(* (models/rpn1d/region_proposal_network_1d.py): the orchestrator's        *)
(* forward call, its loss, and the proposal decoder and anchor target      *)
(* assigner it delegates to.                                               *)
(*                                                                         *)
(* Numbers.  A tensor element is a rational <<n, d>> in lowest terms with  *)
(* d > 0; <<0, 0>> stands for NaN (what a mean over no elements gives).    *)
(* Intervals are (start, end) over the real line with width = end - start; *)
(* an anchor (center, width) is the interval center -/+ width / 2.         *)
(* Index i of the model is index i - 1 of the code.                        *)
(***************************************************************************)
EXTENDS Integers, Sequences, FiniteSets, TLC

VARIABLES globals, self, fwd, dec, tgt, lossc, ev, cnn

vars == <<globals, self, fwd, dec, tgt, lossc, ev, cnn>>

(***************************************************************************)
(* Rational arithmetic                                                     *)
(***************************************************************************)
Abs(n) == IF n < 0 THEN -n ELSE n

RECURSIVE GCD(_, _)
GCD(a, b) == IF b = 0 THEN a ELSE GCD(b, a % b)

NaN == <<0, 0>>

IsNaN(x) == x[2] = 0

Rat(n, d) ==
    IF d = 0 THEN NaN
    ELSE LET g == GCD(Abs(n), Abs(d))
             s == IF d < 0 THEN -1 ELSE 1
         IN  <<(s * n) \div g, (s * d) \div g>>

R(n) == <<n, 1>>

RAdd(x, y) == IF IsNaN(x) \/ IsNaN(y) THEN NaN
              ELSE Rat(x[1] * y[2] + y[1] * x[2], x[2] * y[2])

RNeg(x) == <<-x[1], x[2]>>

RSub(x, y) == RAdd(x, RNeg(y))

RMul(x, y) == IF IsNaN(x) \/ IsNaN(y) THEN NaN
              ELSE Rat(x[1] * y[1], x[2] * y[2])

\* x / y; 0 / 0 and x / 0 have no finite value
RDiv(x, y) == IF IsNaN(x) \/ IsNaN(y) \/ y[1] = 0 THEN NaN
              ELSE Rat(x[1] * y[2], x[2] * y[1])

\* comparisons with NaN are false, as in IEEE arithmetic
RLt(x, y) == ~IsNaN(x) /\ ~IsNaN(y) /\ x[1] * y[2] < y[1] * x[2]

RLe(x, y) == ~IsNaN(x) /\ ~IsNaN(y) /\ x[1] * y[2] <= y[1] * x[2]

RAbs(x) == <<Abs(x[1]), x[2]>>

RMax(x, y) == IF RLt(x, y) THEN y ELSE x

RMin(x, y) == IF RLt(y, x) THEN y ELSE x

RECURSIVE RSum(_)
RSum(s) == IF s = <<>> THEN R(0) ELSE RAdd(Head(s), RSum(Tail(s)))

\* a function over 1..n as the sequence of its values
AsSeq(f) == <<>> \o f

\* torch's mean(): the sum over the element count, NaN over no elements
RMean(s) == IF Len(s) = 0 THEN NaN ELSE RDiv(RSum(s), R(Len(s)))

(***************************************************************************)
(* log and exp on the values the model uses: ln(n / d) in sixteenths, from *)
(* a table of ln 1 .. ln 4; exp is its inverse on LogDomain.               *)
(***************************************************************************)
LnSixteenths == <<0, 11, 18, 22>>

Ln(x) == Rat(LnSixteenths[x[1]] - LnSixteenths[x[2]], 16)

LogDomain == {Rat(n, d) : n \in DOMAIN LnSixteenths, d \in DOMAIN LnSixteenths}

Exp(y) == CHOOSE x \in LogDomain : Ln(x) = y

(***************************************************************************)
(* AnchorGenerator (generate_anchors_1d): position-major, scale-minor.     *)
(***************************************************************************)
Positions == 2

Stride == 3

BaseWidth == 2

Scales == <<1, 2>>

\* the input sequences the fixed bank fits: floor(L / Stride) = Positions
SeqLens == {l \in 1..(Stride * (Positions + 1)) : l \div Stride = Positions}

generate_anchors_1d ==
    LET k == Len(Scales)
    IN  <<[i \in 1..(Positions * k) |->
              [center |-> R(((i - 1) \div k) * Stride),
               width  |-> R(BaseWidth * Scales[((i - 1) % k) + 1])]],
          k>>

AnchorStart(a) == RSub(a.center, RDiv(a.width, R(2)))

AnchorEnd(a) == RAdd(a.center, RDiv(a.width, R(2)))

(***************************************************************************)
(* Interval IoU: intersection length over union length.                    *)
(***************************************************************************)
Inter(s1, e1, s2, e2) == RMax(R(0), RSub(RMin(e1, e2), RMax(s1, s2)))

IoU(s1, e1, s2, e2) ==
    LET i == Inter(s1, e1, s2, e2)
    IN  RDiv(i, RSub(RAdd(RSub(e1, s1), RSub(e2, s2)), i))

(***************************************************************************)
(* ProposalDecoder (proposal_layer_1d).  A candidate is                    *)
(* [idx, start, end, score]; the loop state of the suppression is          *)
(* [valid, cands, i, keep, thr, post].                                     *)
(***************************************************************************)
Clip(x, l) == RMax(R(0), RMin(x, R(l - 1)))

\* step 1: decode anchor i with its delta and clip to [0, L - 1]
Decode(anchors, prob, pred, l, i) ==
    LET a == anchors[i]
        c == RAdd(a.center, RMul(pred[i][1], a.width))
        w == RMul(a.width, Exp(pred[i][2]))
    IN  [idx   |-> i,
         start |-> Clip(RSub(c, RDiv(w, R(2))), l),
         end   |-> Clip(RAdd(c, RDiv(w, R(2))), l),
         score |-> prob[i]]

\* step 2: a proposal of width <= 0 is degenerate
Degenerate(c) == RLe(RSub(c.end, c.start), R(0))

\* step 3: descending score, ties by ascending anchor index
Before(c1, c2) ==
    RLt(c2.score, c1.score) \/ (c1.score = c2.score /\ c1.idx < c2.idx)

RECURSIVE SortCands(_)
SortCands(S) ==
    IF S = {} THEN <<>>
    ELSE LET first == CHOOSE c \in S : \A d \in S \ {c} : Before(c, d)
         IN  <<first>> \o SortCands(S \ {first})

Min2(a, b) == IF a < b THEN a ELSE b

TopN(s, n) == SubSeq(s, 1, Min2(n, Len(s)))

\* steps 1-3: the state the suppression loop starts in
proposal_layer_1d_begin(prob, pred, l, anchors, num_anchors, pre, thr, post) ==
    LET all   == {Decode(anchors, prob, pred, l, i) : i \in DOMAIN anchors}
        valid == SortCands({c \in all : ~Degenerate(c)})
    IN  [valid |-> valid, cands |-> TopN(valid, pre), i |-> 1, keep |-> <<>>,
         thr |-> thr, post |-> post]

\* step 4: the loop runs while fewer than post are accepted and candidates remain
NmsMore(st) == Len(st.keep) < st.post /\ st.i <= Len(st.cands)

Suppressed(c, keep, thr) ==
    \E k \in DOMAIN keep :
        ~RLt(IoU(c.start, c.end, keep[k].start, keep[k].end), thr)

\* one iteration: accept candidate i unless an accepted one suppresses it
NmsStep(st) ==
    LET c == st.cands[st.i]
    IN  [st EXCEPT !.i = st.i + 1,
                   !.keep = IF Suppressed(c, st.keep, st.thr)
                            THEN st.keep ELSE Append(st.keep, c)]

RECURSIVE NmsRun(_)
NmsRun(st) == IF NmsMore(st) THEN NmsRun(NmsStep(st)) ELSE st

\* step 5: the accepted set as (start, end, score), in acceptance order
Proposals(st) ==
    [k \in DOMAIN st.keep |-> <<st.keep[k].start, st.keep[k].end, st.keep[k].score>>]

proposal_layer_1d(prob, pred, l, anchors, num_anchors, pre, thr, post) ==
    Proposals(NmsRun(
        proposal_layer_1d_begin(prob, pred, l, anchors, num_anchors, pre, thr, post)))

\* RegionProposalNetwork1d.proposal_layer: the decoder on the instance's
\* anchors and configuration
\* a wrapper that hands pre_nms_topN over twice
proposal_layer_begin_pre_twice(obj, prob, pred, l) ==
    proposal_layer_1d_begin(prob, pred, l, obj.anchors, obj.num_anchors,
                            obj.pre_nms_topN, obj.nms_threshold, obj.pre_nms_topN)

\* a wrapper whose arguments are shifted by one from num_anchors on
proposal_layer_begin_shifted(obj, prob, pred, l) ==
    proposal_layer_1d_begin(prob, pred, l, obj.anchors, obj.num_anchors,
                            obj.pre_nms_topN, obj.nms_threshold, obj.num_anchors)

proposal_layer_begin(obj, prob, pred, l) ==
    proposal_layer_1d_begin(prob, pred, l, obj.anchors, obj.num_anchors,
                            obj.pre_nms_topN, obj.nms_threshold, obj.post_nms_topN)

proposal_layer(obj, prob, pred, l) == Proposals(NmsRun(proposal_layer_begin(obj, prob, pred, l)))

(***************************************************************************)
(* AnchorTargetAssigner (anchor_target_layer_1d).  Labels are 1 Positive,  *)
(* 0 Negative, -1 Ignore; a ground-truth interval is <<start, end>>; cfg   *)
(* is [iou_high, iou_low, positive_cap, negative_cap], a cap of NoCap      *)
(* meaning no balancing.                                                   *)
(***************************************************************************)
Positive == 1

Negative == 0

Ignore == -1

NoCap == -1

AnchorGtIoU(a, g) == IoU(AnchorStart(a), AnchorEnd(a), R(g[1]), R(g[2]))

\* step 1: the IoU matrix, iou[i][j] for anchor i and ground-truth row j
IoUMatrix(anchors, gt) ==
    AsSeq([i \in DOMAIN anchors |->
              AsSeq([j \in DOMAIN gt |-> AnchorGtIoU(anchors[i], gt[j])])])

RMaxOf(v) == CHOOSE x \in v : \A y \in v : RLe(y, x)

\* step 2: best_iou = max over the ground-truth rows (0 with no row)
BestIoU(iou, i) ==
    IF DOMAIN iou[i] = {} THEN R(0) ELSE RMaxOf({iou[i][j] : j \in DOMAIN iou[i]})

\* best_gt = argmax, the first row on a tie
BestGt(iou, i) ==
    CHOOSE j \in DOMAIN iou[i] :
        /\ iou[i][j] = BestIoU(iou, i)
        /\ \A k \in 1..(j - 1) : iou[i][k] # BestIoU(iou, i)

\* the highest IoU any anchor has with ground-truth row j
GtMaxIoU(iou, j) == RMaxOf({iou[i][j] : i \in DOMAIN iou})

\* rule (i): the anchors achieving the highest IoU of some ground truth
ForcedPositive(iou, i) ==
    \E j \in DOMAIN iou[i] : iou[i][j] = GtMaxIoU(iou, j)

\* step 3: rules (i)-(iv) in priority order
RuleLabel(iou, cfg, i) ==
    IF ForcedPositive(iou, i) THEN Positive
    ELSE IF RLe(cfg.iou_high, BestIoU(iou, i)) THEN Positive
    ELSE IF RLt(BestIoU(iou, i), cfg.iou_low) THEN Negative
    ELSE Ignore

RuleLabels(iou, cfg) == AsSeq([i \in DOMAIN iou |-> RuleLabel(iou, cfg, i)])

\* step 4: the regression target of an anchor against a ground truth
EncodeTarget(a, g) ==
    <<RDiv(RSub(RDiv(R(g[1] + g[2]), R(2)), a.center), a.width),
      Ln(RDiv(R(g[2] - g[1]), a.width))>>

Count(labels, v) == Cardinality({i \in DOMAIN labels : labels[i] = v})

\* step 7: how many labels of value v the balancing demotes to Ignore
Excess(labels, v, cap) ==
    IF cap = NoCap \/ Count(labels, v) <= cap THEN 0 ELSE Count(labels, v) - cap

\* the subsets the seeded draw can pick: any Excess-many anchors labeled v
DemoteChoices(labels, v, cap) ==
    LET n == Excess(labels, v, cap)
    IN  {D \in SUBSET {i \in DOMAIN labels : labels[i] = v} : Cardinality(D) = n}

\* steps 1-7 for one sample; dpos and dneg are the subsets the balancing draws
anchor_target_layer_1d(gt, anchors, num_anchors, l, cfg, dpos, dneg) ==
    LET iou  == IoUMatrix(anchors, gt)
        rule == RuleLabels(iou, cfg)
        n    == Count(rule, Positive) + Count(rule, Negative)
    IN  [labels  |-> [i \in DOMAIN anchors |->
                         IF i \in dpos \cup dneg THEN Ignore ELSE rule[i]],
         targets |-> [i \in DOMAIN anchors |->
                         IF rule[i] = Positive
                         THEN EncodeTarget(anchors[i], gt[BestGt(iou, i)])
                         ELSE <<R(0), R(0)>>],
         inside  |-> [i \in DOMAIN anchors |->
                         IF rule[i] = Positive THEN <<R(1), R(1)>> ELSE <<R(0), R(0)>>],
         outside |-> [i \in DOMAIN anchors |->
                         IF rule[i] # Ignore THEN <<Rat(1, n), Rat(1, n)>>
                         ELSE <<R(0), R(0)>>]]

\* a mutation of the wrapper: the assigner is handed the bank in reverse order
anchor_target_layer_reversed_bank(obj, gt, l, cfg, dpos, dneg) ==
    anchor_target_layer_1d(gt, [i \in DOMAIN obj.anchors |-> obj.anchors[Len(obj.anchors) + 1 - i]],
                           obj.num_anchors, l, cfg, dpos, dneg)

\* RegionProposalNetwork1d.anchor_target_layer: the assigner on the
\* instance's anchors
anchor_target_layer(obj, gt, l, cfg, dpos, dneg) ==
    anchor_target_layer_1d(gt, obj.anchors, obj.num_anchors, l, cfg, dpos, dneg)

\* the draws open to the balancing for a given call
TargetDraws(obj, gt, l, cfg) ==
    LET rule == RuleLabels(IoUMatrix(obj.anchors, gt), cfg)
    IN  DemoteChoices(rule, Positive, cfg.positive_cap)
            \X DemoteChoices(rule, Negative, cfg.negative_cap)

(***************************************************************************)
(* LossCompute: smooth_l1_loss and rpn_loss.  Tensors are sequences over   *)
(* the anchors; the box tensors hold a pair (two channels) per anchor.     *)
(***************************************************************************)
\* a mutation of the element: the linear branch with the offset 0.5 whatever
\* sigma is
SmoothL1Term_fixed_offset(pred, target, inw, outw, sigma) ==
    LET sigma_2 == RMul(sigma, sigma)
        in_box_diff == RMul(inw, RSub(pred, target))
        abs_in_box_diff == RAbs(in_box_diff)
    IN  RMul(outw, IF RLt(abs_in_box_diff, RDiv(R(1), sigma_2))
                   THEN RMul(RMul(in_box_diff, in_box_diff), RDiv(sigma_2, R(2)))
                   ELSE RSub(abs_in_box_diff, Rat(1, 2)))

\* a mutation of the element: the inside weight is left out of the residual
SmoothL1Term_no_inside(pred, target, inw, outw, sigma) ==
    LET sigma_2 == RMul(sigma, sigma)
        in_box_diff == RSub(pred, target)
        abs_in_box_diff == RAbs(in_box_diff)
    IN  RMul(outw, IF RLt(abs_in_box_diff, RDiv(R(1), sigma_2))
                   THEN RMul(RMul(in_box_diff, in_box_diff), RDiv(sigma_2, R(2)))
                   ELSE RSub(abs_in_box_diff, RDiv(Rat(1, 2), sigma_2)))

\* lines 104-111, one element
SmoothL1Term(pred, target, inw, outw, sigma) ==
    LET sigma_2 == RMul(sigma, sigma)
        in_box_diff == RMul(inw, RSub(pred, target))
        abs_in_box_diff == RAbs(in_box_diff)
        smoothL1_sign == IF RLt(abs_in_box_diff, RDiv(R(1), sigma_2)) THEN R(1) ELSE R(0)
        in_loss_box ==
            RAdd(RMul(RMul(RMul(in_box_diff, in_box_diff), RDiv(sigma_2, R(2))),
                      smoothL1_sign),
                 RMul(RSub(abs_in_box_diff, RDiv(Rat(1, 2), sigma_2)),
                      RSub(R(1), smoothL1_sign)))
    IN  RMul(outw, in_loss_box)

\* lines 104-111 over the tensors: out_loss_box, a pair of terms per anchor
out_loss_box(bbox_pred, bbox_targets, inw, outw, sigma) ==
    AsSeq([i \in DOMAIN bbox_pred |->
              <<SmoothL1Term(bbox_pred[i][1], bbox_targets[i][1], inw[i][1], outw[i][1], sigma),
                SmoothL1Term(bbox_pred[i][2], bbox_targets[i][2], inw[i][2], outw[i][2], sigma)>>])

\* the sum over dim [1] (the channels), then the mean over what is left
smooth_l1_loss(bbox_pred, bbox_targets, inw, outw, sigma) ==
    RMean([i \in DOMAIN bbox_pred |->
              RAdd(SmoothL1Term(bbox_pred[i][1], bbox_targets[i][1],
                                inw[i][1], outw[i][1], sigma),
                   SmoothL1Term(bbox_pred[i][2], bbox_targets[i][2],
                                inw[i][2], outw[i][2], sigma))])

\* torch's binary_cross_entropy clamps each log at -100
ClampedLog(p) == IF p[1] = 0 THEN R(-100) ELSE RMax(R(-100), Ln(p))

BceTerm(p, y) ==
    RNeg(RAdd(RMul(R(y), ClampedLog(p)), RMul(R(1 - y), ClampedLog(RSub(R(1), p)))))

\* index_select: the subsequence of s at the indices in sel, in order
RECURSIVE IndexSelect(_, _, _)
IndexSelect(s, keepIt, i) ==
    IF i > Len(s) THEN <<>>
    ELSE (IF keepIt[i] THEN <<s[i]>> ELSE <<>>) \o IndexSelect(s, keepIt, i + 1)

\* a mutation of ClassLoss: the cross-entropy over every anchor, selected or not
ClassLoss_unselected(rpn_cls_prob, rpn_labels) ==
    RMean([i \in 1..Len(rpn_cls_prob) |-> BceTerm(rpn_cls_prob[i], rpn_labels[i])])

\* lines 133-140: the mean (torch's default reduction) over the selected anchors
ClassLoss(rpn_cls_prob, rpn_labels) ==
    LET rpn_select == [i \in DOMAIN rpn_labels |-> rpn_labels[i] # -1]
        prob == IndexSelect(rpn_cls_prob, rpn_select, 1)
        labels == IndexSelect(rpn_labels, rpn_select, 1)
    IN  RMean([i \in 1..Len(prob) |-> BceTerm(prob[i], labels[i])])

rpn_loss(rpn_cls_prob, rpn_labels, rpn_bbox_pred, rpn_bbox_targets, inw, outw, sigma, loss_box_weight) ==
    LET rpn_cross_entropy == ClassLoss(rpn_cls_prob, rpn_labels)
        rpn_loss_box == smooth_l1_loss(rpn_bbox_pred, rpn_bbox_targets, inw, outw, sigma)
    IN  RAdd(rpn_cross_entropy, RMul(loss_box_weight, rpn_loss_box))

(***************************************************************************)
(* Bounds and input sets                                                   *)
(***************************************************************************)
MaxTopN == 2

MaxBatch == 2

Modes == {"train", "test", "eval"}

Thresholds == {R(0), Rat(1, 2), R(1)}

\* foreground probabilities the head can emit
Probs == {R(0), Rat(1, 2), R(1)}

\* regression deltas the head can emit: none, two widths to the left, half
\* the width
Deltas == {<<R(0), Ln(R(1))>>, <<R(-2), Ln(R(1))>>, <<R(0), Ln(Rat(1, 2))>>}

(***************************************************************************)
(* RegionProposalNetwork1d.__init__                                        *)
(***************************************************************************)
NoInstance ==
    [constructed |-> FALSE, anchors |-> <<>>, num_anchors |-> 0,
     pre_nms_topN |-> 0, nms_threshold |-> R(0), post_nms_topN |-> 0,
     mode |-> "none"]

\* a mutation of __init__: the bank kept scale-major instead of as generated
NewInstance_scale_major(pre, thr, post, mode) ==
    [constructed |-> TRUE,
     anchors |-> [i \in DOMAIN generate_anchors_1d[1] |->
                     generate_anchors_1d[1][((i - 1) % Positions) * Len(Scales)
                                            + ((i - 1) \div Positions) + 1]],
     num_anchors |-> generate_anchors_1d[2],
     pre_nms_topN |-> pre, nms_threshold |-> thr, post_nms_topN |-> post,
     mode |-> mode]

\* the instance __init__ builds: no argument is validated, any mode is kept
NewInstance(pre, thr, post, mode) ==
    [constructed |-> TRUE,
     anchors |-> generate_anchors_1d[1], num_anchors |-> generate_anchors_1d[2],
     pre_nms_topN |-> pre, nms_threshold |-> thr, post_nms_topN |-> post,
     mode |-> mode]

Instances ==
    {NewInstance(pre, thr, post, mode) :
        pre \in 0..MaxTopN, thr \in Thresholds, post \in 0..MaxTopN, mode \in Modes}

NumAnchors == Positions * Len(Scales)

HeadProbs == [1..NumAnchors -> Probs]

HeadPreds == [1..NumAnchors -> Deltas]

\* ground-truth intervals of a sample, inside a sequence of length l
MaxGT == 2

GtIntervals(l) == {g \in {<<0, 1>>, <<2, 4>>, <<1, 5>>, <<5, 6>>} : g[2] <= l - 1}

GtSeqs(l) == UNION {[1..n -> GtIntervals(l)] : n \in 0..MaxGT}

MaxCap == 2

Caps == {NoCap} \cup (1..MaxCap)

\* head outputs of a forward call: the first anchor's probability and the
\* others', and one delta for all anchors
FwdProbs == {f \in HeadProbs : \A i \in DOMAIN f : i > 1 => f[i] = f[2]}

FwdPreds == {f \in HeadPreds : \A i \in DOMAIN f : f[i] = f[1]}

AssignCfgs ==
    {c \in [iou_high : Thresholds, iou_low : Thresholds, positive_cap : Caps, negative_cap : Caps] :
        RLt(R(0), c.iou_high) /\ RLe(c.iou_low, c.iou_high)}

(***************************************************************************)
(* The call frames.                                                        *)
(***************************************************************************)
NoTargets == [labels |-> <<>>, targets |-> <<>>, inside |-> <<>>, outside |-> <<>>]

NoCfg == [iou_high |-> R(0), iou_low |-> R(0), positive_cap |-> NoCap, negative_cap |-> NoCap]

DecIdle ==
    [pc |-> "idle", out |-> <<>>,
     st |-> [valid |-> <<>>, cands |-> <<>>, i |-> 1, keep |-> <<>>, thr |-> R(0), post |-> 0]]

FwdIdle ==
    [pc |-> "idle", batch |-> 0, l |-> 0, gt |-> <<>>, prob |-> <<>>, pred |-> <<>>,
     output |-> <<>>, tg |-> NoTargets, ran |-> {}, error |-> "none",
     proposals |-> <<>>, loss |-> R(0)]

TgtIdle == [pc |-> "idle", gt |-> <<>>, l |-> 0, cfg |-> NoCfg, res |-> NoTargets]

LossIdle == [pc |-> "idle", arg |-> <<>>, sigma |-> R(1), weight |-> R(1), terms |-> <<>>, cls |-> R(0), box |-> R(0), out |-> R(0)]

\* Python's None, and an int, as values a name can hold
None == <<>>

PyInt(n) == <<n>>

\* truth value of None or an int: None and 0 are false
Truthy(v) == v # None /\ v[1] # 0

\* parse_model_evaluation_file before its call (lines 36-41: empty counts and lists)
EvIdle ==
    [pc |-> "idle", exclude |-> {}, mod_min_pts |-> 1, lines |-> <<>>,
     mod_stats |-> [tp |-> 0, fp |-> 0, tn |-> 0, fn |-> 0],
     mod_tp |-> <<>>, mod_fp |-> <<>>, mod_tn |-> <<>>, mod_fn |-> <<>>,
     osw_scores |-> <<>>, target |-> <<>>, pred |-> <<>>, error |-> "none"]

\* get_cnn_data before its call (lines 345-347)
CnnIdle ==
    [pc |-> "idle", use_rt |-> FALSE, scored |-> FALSE, csv_only |-> FALSE,
     window_size |-> -1, precs |-> <<>>, filename_bound |-> FALSE,
     label_matrix |-> <<>>, chromatograms_csv |-> <<>>, chromatogram_id |-> 0,
     error |-> "none", line |-> 0]

(***************************************************************************)
(* DecodeSpec: calls of proposal_layer on a constructed instance, the      *)
(* suppression loop one iteration at a time.                               *)
(***************************************************************************)
DecodeInit ==
    /\ globals = [out_channels |-> TRUE, init_error |-> "none"]
    /\ self \in {o \in Instances : o.mode = "test"}
    /\ fwd = FwdIdle
    /\ dec = DecIdle
    /\ tgt = TgtIdle
    /\ lossc = LossIdle
    /\ ev = EvIdle
    /\ cnn = CnnIdle

DecCall ==
    /\ dec.pc = "idle"
    /\ \E prob \in HeadProbs, pred \in HeadPreds, l \in SeqLens :
          dec' = [pc |-> "nms", st |-> proposal_layer_begin(self, prob, pred, l),
                  out |-> <<>>]
    /\ UNCHANGED <<globals, self, fwd, tgt, lossc, ev, cnn>>

DecNmsStep ==
    /\ dec.pc = "nms"
    /\ NmsMore(dec.st)
    /\ dec' = [dec EXCEPT !.st = NmsStep(dec.st)]
    /\ UNCHANGED <<globals, self, fwd, tgt, lossc, ev, cnn>>

DecReturn ==
    /\ dec.pc = "nms"
    /\ ~NmsMore(dec.st)
    /\ dec' = [dec EXCEPT !.pc = "done", !.out = Proposals(dec.st)]
    /\ UNCHANGED <<globals, self, fwd, tgt, lossc, ev, cnn>>

DecReset ==
    /\ dec.pc = "done"
    /\ dec' = DecIdle
    /\ UNCHANGED <<globals, self, fwd, tgt, lossc, ev, cnn>>

DecodeNext == DecCall \/ DecNmsStep \/ DecReturn \/ DecReset

DecodeSpec == DecodeInit /\ [][DecodeNext]_vars

(***************************************************************************)
(* AssignSpec: calls of anchor_target_layer on a constructed instance.     *)
(***************************************************************************)
AssignInit ==
    /\ globals = [out_channels |-> TRUE, init_error |-> "none"]
    /\ self = NewInstance(MaxTopN, Rat(1, 2), MaxTopN, "train")
    /\ fwd = FwdIdle
    /\ dec = DecIdle
    /\ tgt = TgtIdle
    /\ lossc = LossIdle
    /\ ev = EvIdle
    /\ cnn = CnnIdle

TgtCall ==
    /\ tgt.pc = "idle"
    /\ \E l \in SeqLens, cfg \in AssignCfgs :
         \E gt \in GtSeqs(l) :
           \E d \in TargetDraws(self, gt, l, cfg) :
              tgt' = [pc |-> "done", gt |-> gt, l |-> l, cfg |-> cfg,
                      res |-> anchor_target_layer(self, gt, l, cfg, d[1], d[2])]
    /\ UNCHANGED <<globals, self, fwd, dec, lossc, ev, cnn>>

TgtReset ==
    /\ tgt.pc = "done"
    /\ tgt' = TgtIdle
    /\ UNCHANGED <<globals, self, fwd, dec, lossc, ev, cnn>>

AssignNext == TgtCall \/ TgtReset

AssignSpec == AssignInit /\ [][AssignNext]_vars

(***************************************************************************)
(* LossSpec: calls of rpn_loss on tensors over 1..n anchors.               *)
(***************************************************************************)
MaxLossAnchors == 2

Sigmas == {Rat(1, 2), R(1), R(2)}

LossWeights == {R(0), R(1)}

\* per-anchor box inputs: zero residual, the branch boundary (channel 1 at
\* sigma 1, channel 2 at sigma 2), a large residual (channel 1 at the branch
\* boundary of sigma 1/2), a masked one, one with no outside weight, and a
\* small one
LossBoxes ==
    {[pred |-> <<R(0), R(0)>>, target |-> <<R(0), R(0)>>,
      inside |-> <<R(1), R(1)>>, outside |-> <<Rat(1, 2), Rat(1, 2)>>],
     [pred |-> <<R(1), Rat(1, 4)>>, target |-> <<R(0), R(0)>>,
      inside |-> <<R(1), R(1)>>, outside |-> <<Rat(1, 2), Rat(1, 2)>>],
     [pred |-> <<R(4), R(-2)>>, target |-> <<R(0), R(0)>>,
      inside |-> <<R(1), R(1)>>, outside |-> <<Rat(1, 2), Rat(1, 2)>>],
     [pred |-> <<R(2), R(-2)>>, target |-> <<R(1), R(0)>>,
      inside |-> <<R(0), R(0)>>, outside |-> <<Rat(1, 2), Rat(1, 2)>>],
     [pred |-> <<R(2), R(-2)>>, target |-> <<R(0), R(0)>>,
      inside |-> <<R(1), R(1)>>, outside |-> <<R(0), R(0)>>],
     [pred |-> <<Rat(1, 2), R(0)>>, target |-> <<R(1), R(0)>>,
      inside |-> <<R(1), R(1)>>, outside |-> <<R(1), R(1)>>]}

\* per-anchor inputs: the class loss reads prob and label only and the box
\* loss reads box only, so each anchor varies one of the two
ZeroBox ==
    [pred |-> <<R(0), R(0)>>, target |-> <<R(0), R(0)>>,
     inside |-> <<R(1), R(1)>>, outside |-> <<Rat(1, 2), Rat(1, 2)>>]

LossAnchorArgs ==
    [prob : Probs, label : {Positive, Negative, Ignore}, box : {ZeroBox}]
        \cup [prob : {Rat(1, 2)}, label : {Positive}, box : LossBoxes]

LossArgs == UNION {[1..n -> LossAnchorArgs] : n \in 1..MaxLossAnchors}

Col(arg, f) == AsSeq([i \in DOMAIN arg |-> arg[i][f]])

BoxCol(arg, f) == AsSeq([i \in DOMAIN arg |-> arg[i].box[f]])

LossInit ==
    /\ globals = [out_channels |-> TRUE, init_error |-> "none"]
    /\ self = NewInstance(MaxTopN, Rat(1, 2), MaxTopN, "train")
    /\ fwd = FwdIdle
    /\ dec = DecIdle
    /\ tgt = TgtIdle
    /\ lossc = LossIdle
    /\ ev = EvIdle
    /\ cnn = CnnIdle

LossCall ==
    /\ lossc.pc = "idle"
    /\ \E arg \in LossArgs, sigma \in Sigmas, w \in LossWeights :
          lossc' = [pc |-> "done", arg |-> arg, sigma |-> sigma, weight |-> w,
                    terms |-> out_loss_box(BoxCol(arg, "pred"), BoxCol(arg, "target"),
                                           BoxCol(arg, "inside"), BoxCol(arg, "outside"),
                                           sigma),
                    cls |-> ClassLoss(Col(arg, "prob"), Col(arg, "label")),
                    box |-> smooth_l1_loss(BoxCol(arg, "pred"), BoxCol(arg, "target"),
                                           BoxCol(arg, "inside"), BoxCol(arg, "outside"),
                                           sigma),
                    out |-> rpn_loss(Col(arg, "prob"), Col(arg, "label"),
                                     BoxCol(arg, "pred"), BoxCol(arg, "target"),
                                     BoxCol(arg, "inside"), BoxCol(arg, "outside"),
                                     sigma, w)]
    /\ UNCHANGED <<globals, self, fwd, dec, tgt, ev, cnn>>

LossReset ==
    /\ lossc.pc = "done"
    /\ lossc' = LossIdle
    /\ UNCHANGED <<globals, self, fwd, dec, tgt, ev, cnn>>

LossNext == LossCall \/ LossReset

LossSpec == LossInit /\ [][LossNext]_vars

(***************************************************************************)
(* Spec: construction and forward calls, one at a time.                    *)
(***************************************************************************)
\* the configurations the assigner may have been built with in a forward run
FwdAssignCfgs ==
    {c \in AssignCfgs : c.iou_low = c.iou_high /\ c.positive_cap = c.negative_cap}

\* gt_boxes is passed in Train mode only (its default is None)
FwdGts(mode, l) ==
    IF mode = "train" THEN {g \in GtSeqs(l) : Len(g) <= 1} ELSE {<<>>}

Init ==
    /\ globals \in [out_channels : BOOLEAN, init_error : {"none"}]
    /\ self = NoInstance
    /\ fwd = FwdIdle
    /\ dec = DecIdle
    /\ tgt = TgtIdle
    /\ lossc = LossIdle
    /\ ev = EvIdle
    /\ cnn = CnnIdle

\* __init__, lines 28-71: out_channels (line 47) is a free name of the module
Construct ==
    /\ ~self.constructed
    /\ globals.init_error = "none"
    /\ \E pre \in 0..MaxTopN, thr \in Thresholds, post \in 0..MaxTopN, mode \in Modes :
          IF globals.out_channels
          THEN self' = NewInstance(pre, thr, post, mode) /\ UNCHANGED globals
          ELSE globals' = [globals EXCEPT !.init_error = "NameError"] /\ UNCHANGED self
    /\ UNCHANGED <<fwd, dec, tgt, lossc, ev, cnn>>

\* lines 161-163: the call and the Train-mode batch size assertion
\* a call without the assertion
FwdCallFrame_unchecked(obj, batch, l, gt) ==
    [FwdIdle EXCEPT !.pc = "backbone", !.batch = batch, !.l = l, !.gt = gt]

FwdCallFrame(obj, batch, l, gt) ==
    IF obj.mode = "train" /\ batch # 1
    THEN [FwdIdle EXCEPT !.pc = "raised", !.error = "AssertionError",
                         !.batch = batch, !.l = l, !.gt = gt]
    ELSE [FwdIdle EXCEPT !.pc = "backbone", !.batch = batch, !.l = l, !.gt = gt]

FwdCall ==
    /\ self.constructed
    /\ fwd.pc = "idle"
    /\ \E batch \in 0..MaxBatch, l \in SeqLens :
         \E gt \in FwdGts(self.mode, l) :
            fwd' = FwdCallFrame(self, batch, l, gt)
    /\ UNCHANGED <<globals, self, dec, tgt, lossc, ev, cnn>>

\* lines 165-177: the backbone and the heads
FwdBackbone ==
    /\ fwd.pc = "backbone"
    /\ \E prob \in FwdProbs, pred \in FwdPreds :
          fwd' = [fwd EXCEPT !.pc = "proposal", !.prob = prob, !.pred = pred,
                             !.ran = @ \cup {"backbone"}]
    /\ UNCHANGED <<globals, self, dec, tgt, lossc, ev, cnn>>

\* a mutation of the proposal step: the decoder reverses the bank it is handed
FwdProposal_writes_bank ==
    /\ fwd.pc = "proposal"
    /\ fwd' = [fwd EXCEPT !.pc = "dispatch",
                          !.output = proposal_layer(self, fwd.prob, fwd.pred, fwd.l),
                          !.ran = @ \cup {"proposal_layer"}]
    /\ self' = [self EXCEPT !.anchors = [i \in DOMAIN @ |-> @[Len(@) + 1 - i]]]
    /\ UNCHANGED <<globals, dec, tgt, lossc, ev, cnn>>

\* lines 179-182
FwdProposal ==
    /\ fwd.pc = "proposal"
    /\ fwd' = [fwd EXCEPT !.pc = "dispatch",
                          !.output = proposal_layer(self, fwd.prob, fwd.pred, fwd.l),
                          !.ran = @ \cup {"proposal_layer"}]
    /\ UNCHANGED <<globals, self, dec, tgt, lossc, ev, cnn>>

\* lines 184-187 and 211-212: the mode dispatch; the Train branch prints the
\* top proposal, output[:, 0, :]
\* a dispatch whose last branch returns the proposals
FwdDispatchFrame_else_returns(obj, f) ==
    IF obj.mode = "train"
    THEN IF Len(f.output) = 0
         THEN [f EXCEPT !.pc = "raised", !.error = "IndexError"]
         ELSE [f EXCEPT !.pc = "targets"]
    ELSE [f EXCEPT !.pc = "returned", !.proposals = f.output]

FwdDispatchFrame(obj, f) ==
    IF obj.mode = "test"
    THEN [f EXCEPT !.pc = "returned", !.proposals = f.output]
    ELSE IF obj.mode = "train"
    THEN IF Len(f.output) = 0
         THEN [f EXCEPT !.pc = "raised", !.error = "IndexError"]
         ELSE [f EXCEPT !.pc = "targets"]
    ELSE [f EXCEPT !.pc = "raised", !.error = "NotImplementedError"]

FwdDispatch ==
    /\ fwd.pc = "dispatch"
    /\ fwd' = FwdDispatchFrame(self, fwd)
    /\ UNCHANGED <<globals, self, dec, tgt, lossc, ev, cnn>>

\* lines 189-201
FwdTargets ==
    /\ fwd.pc = "targets"
    /\ \E cfg \in FwdAssignCfgs :
         \E d \in TargetDraws(self, fwd.gt, fwd.l, cfg) :
            fwd' = [fwd EXCEPT !.pc = "loss",
                               !.tg = anchor_target_layer(self, fwd.gt, fwd.l, cfg, d[1], d[2]),
                               !.ran = @ \cup {"anchor_target_layer"}]
    /\ UNCHANGED <<globals, self, dec, tgt, lossc, ev, cnn>>

\* lines 203-210: rpn_loss with its default sigma and loss_box_weight
FwdLossValue(f) ==
    rpn_loss(f.prob, f.tg.labels, f.pred, f.tg.targets, f.tg.inside, f.tg.outside,
             R(1), R(1))

FwdLoss ==
    /\ fwd.pc = "loss"
    /\ fwd' = [fwd EXCEPT !.pc = "returned", !.loss = FwdLossValue(fwd),
                          !.ran = @ \cup {"rpn_loss"}]
    /\ UNCHANGED <<globals, self, dec, tgt, lossc, ev, cnn>>

\* the caller takes the result or the error; the next call can start
FwdReset ==
    /\ fwd.pc \in {"returned", "raised"}
    /\ fwd' = FwdIdle
    /\ UNCHANGED <<globals, self, dec, tgt, lossc, ev, cnn>>

Next ==
    \/ Construct
    \/ FwdCall
    \/ FwdBackbone
    \/ FwdProposal
    \/ FwdDispatch
    \/ FwdTargets
    \/ FwdLoss
    \/ FwdReset

Spec == Init /\ [][Next]_vars

(***************************************************************************)
(* Properties                                                              *)
(***************************************************************************)
Min3(a, b, c) == Min2(a, Min2(b, c))

FwdEnded == fwd.pc \in {"returned", "raised"}

\* C1: in Train mode a forward call whose batch size is not 1 ends in the
\* assertion error, before the backbone, the proposal decoder, the target
\* assigner or the loss have run, and it never returns.
C1_TrainBatchAsserted ==
    (fwd.pc # "idle" /\ self.mode = "train" /\ fwd.batch # 1)
        => (fwd.pc = "raised" /\ fwd.error = "AssertionError" /\ fwd.ran = {})

C1_Witness ==
    self.mode = "train" /\ fwd.batch = 2 /\ fwd.pc = "raised"
        /\ fwd.error = "AssertionError"

\* C2: on an instance whose mode is neither train nor test no forward call
\* returns, and a call that ends ends in NotImplementedError.
C2_UnknownModeRaises ==
    (self.constructed /\ self.mode \notin {"train", "test"})
        => /\ fwd.pc # "returned"
           /\ fwd.pc = "raised" => fwd.error = "NotImplementedError"

C2_Witness ==
    self.mode = "eval" /\ fwd.pc = "raised" /\ fwd.error = "NotImplementedError"
        /\ "proposal_layer" \in fwd.ran

\* C3: a forward call whose decoder produced no proposal still returns: the
\* empty list in Test mode, the loss in Train mode with one sample and a
\* ground-truth interval.
C3_EmptyProposalsReturn ==
    (/\ FwdEnded
     /\ "proposal_layer" \in fwd.ran
     /\ Len(fwd.output) = 0
     /\ self.pre_nms_topN >= 1 /\ self.post_nms_topN >= 1
     /\ \/ self.mode = "test"
        \/ self.mode = "train" /\ fwd.batch = 1 /\ Len(fwd.gt) >= 1)
        => fwd.pc = "returned"

\* C4: with every label Ignore the classification loss of rpn_loss is a
\* defined finite value, and so is the loss.
C4_EmptyLabeledSetGuarded ==
    (lossc.pc = "done" /\ \A i \in DOMAIN lossc.arg : lossc.arg[i].label = Ignore)
        => ~IsNaN(lossc.cls) /\ ~IsNaN(lossc.out)

\* C5: what a Test-mode forward call returns has at most post_nms_topN
\* proposals, in non-increasing order of score.
C5_TestOutputBounded ==
    (self.mode = "test" /\ fwd.pc = "returned")
        => /\ Len(fwd.proposals) <= self.post_nms_topN
           /\ \A k \in 1..(Len(fwd.proposals) - 1) :
                 RLe(fwd.proposals[k + 1][3], fwd.proposals[k][3])

C5_Witness ==
    self.mode = "test" /\ fwd.pc = "returned" /\ Len(fwd.proposals) = 2
        /\ self.post_nms_topN = 2
        /\ RLt(fwd.proposals[2][3], fwd.proposals[1][3])

\* C6: at every iteration of the suppression loop and in its result, any two
\* accepted proposals have IoU below nms_threshold, every accepted proposal
\* is among the top pre_nms_topN valid candidates, and at most
\* min(pre_nms_topN, post_nms_topN, valid candidates) are accepted.
C6_NmsInvariant ==
    dec.pc \in {"nms", "done"} =>
        LET keep  == dec.st.keep
            valid == dec.st.valid
        IN  /\ \A a, b \in DOMAIN keep :
                  a # b => RLt(IoU(keep[a].start, keep[a].end, keep[b].start, keep[b].end),
                               self.nms_threshold)
            /\ \A a \in DOMAIN keep :
                  \E j \in 1..Min2(self.pre_nms_topN, Len(valid)) : valid[j] = keep[a]
            /\ Len(keep) <= Min3(self.pre_nms_topN, self.post_nms_topN, Len(valid))
            /\ dec.pc = "done" => Len(dec.out) = Len(keep)

C6_Witness ==
    dec.pc = "done" /\ Len(dec.st.keep) = 1 /\ dec.st.i = 3
        /\ self.pre_nms_topN = 2 /\ self.post_nms_topN = 2
        /\ self.nms_threshold = Rat(1, 2)

\* C7: with nms_threshold = 1 the decoder returns exactly
\* min(pre_nms_topN, post_nms_topN, valid candidates) proposals.
C7_NoSuppressionAtOne ==
    (dec.pc = "done" /\ self.nms_threshold = R(1))
        => Len(dec.out) = Min3(self.pre_nms_topN, self.post_nms_topN, Len(dec.st.valid))

\* C8: with at least one ground-truth interval, every ground-truth interval
\* has a Positive anchor among the anchors of its highest IoU in the labels
\* the assigner returns.
C8_EveryGtCovered ==
    (tgt.pc = "done" /\ Len(tgt.gt) >= 1) =>
        LET iou == IoUMatrix(self.anchors, tgt.gt)
        IN  \A j \in DOMAIN tgt.gt :
               \E i \in DOMAIN self.anchors :
                  tgt.res.labels[i] = Positive /\ iou[i][j] = GtMaxIoU(iou, j)

\* C9: an anchor whose interval equals a ground-truth interval is labeled
\* Positive and has the regression target (0, 0).
C9_ExactMatchPositive ==
    tgt.pc = "done" =>
        \A i \in DOMAIN self.anchors, j \in DOMAIN tgt.gt :
            (AnchorStart(self.anchors[i]) = R(tgt.gt[j][1])
                /\ AnchorEnd(self.anchors[i]) = R(tgt.gt[j][2]))
            => (tgt.res.labels[i] = Positive /\ tgt.res.targets[i] = <<R(0), R(0)>>)

\* C10: rpn_loss returns classification loss + loss_box_weight * regression
\* loss, a finite non-negative value.
C10_LossFiniteNonNegative ==
    lossc.pc = "done" =>
        /\ lossc.out = RAdd(lossc.cls, RMul(lossc.weight, lossc.box))
        /\ ~IsNaN(lossc.out)
        /\ RLe(R(0), lossc.out)

\* the labeled (non-Ignore) anchors of a loss call
LossLabeled == {i \in DOMAIN lossc.arg : lossc.arg[i].label # Ignore}

\* C11: the classification loss of rpn_loss depends on the probabilities of
\* the non-Ignore anchors only (any other probabilities at the Ignore anchors
\* give the same value), and a single labeled anchor contributes -log(p) when
\* Positive (target 1) and -log(1 - p) when Negative (target 0).
C11_ClassLossOverLabeled ==
    lossc.pc = "done" =>
        LET labels == Col(lossc.arg, "label")
            prob   == Col(lossc.arg, "prob")
        IN  /\ \A q \in [DOMAIN lossc.arg -> Probs] :
                  (\A i \in LossLabeled : q[i] = prob[i])
                      => ClassLoss(AsSeq(q), labels) = lossc.cls
            /\ \A i \in LossLabeled :
                  LossLabeled = {i} =>
                      lossc.cls = IF labels[i] = Positive
                                  THEN RNeg(ClampedLog(prob[i]))
                                  ELSE RNeg(ClampedLog(RSub(R(1), prob[i])))

C11_Witness ==
    /\ lossc.pc = "done" /\ Len(lossc.arg) = 2
    /\ lossc.arg[1].label = Ignore /\ lossc.arg[1].prob = R(0)
    /\ lossc.arg[2].label = Positive /\ lossc.arg[2].prob = Rat(1, 2)
    /\ lossc.cls = Rat(11, 16)

C13_ConstructionStateFrozen ==
    [][self.constructed =>
          /\ self'.constructed
          /\ self'.anchors = self.anchors
          /\ self'.num_anchors = self.num_anchors
          /\ self'.mode = self.mode]_vars

C13_Witness ==
    /\ self.constructed /\ self.mode = "train"
    /\ fwd.pc = "raised" /\ fwd.error = "IndexError"
    /\ "proposal_layer" \in fwd.ran
    /\ self.anchors = generate_anchors_1d[1]

\* the IoU matrix of a finished assigner call
TgtIoU == IoUMatrix(self.anchors, tgt.gt)

\* the labeling of rules (ii)-(iv) read off the returned labels, with the
\* anchors of rule (i) Positive whatever their best_iou is
LabelsFollowRules ==
    \A i \in DOMAIN tgt.res.labels :
        LET lab  == tgt.res.labels[i]
            best == BestIoU(TgtIoU, i)
        IN  /\ lab \in {Positive, Negative, Ignore}
            /\ IF ForcedPositive(TgtIoU, i)
               THEN lab = Positive
               ELSE /\ lab = Positive <=> RLe(tgt.cfg.iou_high, best)
                    /\ lab = Negative <=> RLt(best, tgt.cfg.iou_low)
                    /\ lab = Ignore <=> (RLe(tgt.cfg.iou_low, best) /\ RLt(best, tgt.cfg.iou_high))

\* the balancing of step 7 has nothing to demote
NothingToDemote ==
    LET rule == RuleLabels(TgtIoU, tgt.cfg)
    IN  /\ Excess(rule, Positive, tgt.cfg.positive_cap) = 0
        /\ Excess(rule, Negative, tgt.cfg.negative_cap) = 0

BranchTerm(d, sigma) ==
    IF RLt(RAbs(d), RDiv(R(1), RMul(sigma, sigma)))
    THEN RMul(RMul(Rat(1, 2), RMul(sigma, sigma)), RMul(d, d))
    ELSE RSub(RAbs(d), RDiv(Rat(1, 2), RMul(sigma, sigma)))

\* what one anchor of a loss call adds: its two weighted channel terms
AnchorBoxSum(b, sigma) ==
    RAdd(RMul(b.outside[1], BranchTerm(RMul(b.inside[1], RSub(b.pred[1], b.target[1])), sigma)),
         RMul(b.outside[2], BranchTerm(RMul(b.inside[2], RSub(b.pred[2], b.target[2])), sigma)))

\* the anchors of a loss call whose inside weight is 0 on both channels
LossMasked == {i \in DOMAIN lossc.arg : lossc.arg[i].box.inside = <<R(0), R(0)>>}

\* C15: smooth_l1_loss is the mean over anchors of the channel sums of
\* outside_weight * term(inside_weight * (pred - target)), the term being
\* 0.5 sigma^2 d^2 for |d| < 1/sigma^2 and |d| - 0.5/sigma^2 otherwise; an
\* anchor with inside weight 0 on both channels adds 0.
C15_SmoothL1Formula ==
    lossc.pc = "done" =>
        LET n == Len(lossc.arg)
            sums == [i \in 1..n |-> AnchorBoxSum(lossc.arg[i].box, lossc.sigma)]
            unmasked == [i \in 1..n |-> IF i \in LossMasked THEN R(0) ELSE sums[i]]
        IN  /\ lossc.box = RDiv(RSum(AsSeq(sums)), R(n))
            /\ lossc.box = RDiv(RSum(AsSeq(unmasked)), R(n))

C15_Witness ==
    /\ lossc.pc = "done" /\ Len(lossc.arg) = 2 /\ lossc.sigma = R(2)
    /\ 1 \in LossMasked /\ lossc.arg[1].box.pred # lossc.arg[1].box.target
    /\ lossc.arg[1].box.outside # <<R(0), R(0)>>
    /\ 2 \notin LossMasked /\ RLt(R(0), lossc.box)

\* the residual d of channel c of anchor i in a loss call
LossResidual(i, c) ==
    RMul(lossc.arg[i].box.inside[c],
         RSub(lossc.arg[i].box.pred[c], lossc.arg[i].box.target[c]))

\* C16: the smooth-L1 term is 0 at residual 0, and at |d| = 1/sigma^2 it is
\* 0.5/sigma^2 (times the outside weight), which is also what the quadratic
\* branch 0.5 sigma^2 d^2 gives there.
C16_SmoothL1Continuous ==
    lossc.pc = "done" =>
        \A i \in DOMAIN lossc.arg : \A c \in 1..2 :
            LET d       == LossResidual(i, c)
                sigma_2 == RMul(lossc.sigma, lossc.sigma)
                outw    == lossc.arg[i].box.outside[c]
            IN  /\ d = R(0) => lossc.terms[i][c] = R(0)
                /\ RAbs(d) = RDiv(R(1), sigma_2) =>
                      /\ lossc.terms[i][c] = RMul(outw, RDiv(Rat(1, 2), sigma_2))
                      /\ RMul(outw, RMul(RMul(Rat(1, 2), sigma_2), RMul(d, d)))
                             = lossc.terms[i][c]

C16_Witness ==
    /\ lossc.pc = "done" /\ lossc.sigma = R(2) /\ Len(lossc.arg) = 2
    /\ RAbs(LossResidual(1, 2)) = Rat(1, 4)
    /\ lossc.terms[1][2] = Rat(1, 16)
    /\ LossResidual(2, 1) = R(0) /\ lossc.terms[2][1] = R(0)

(***************************************************************************)
(* EvalSpec: parse_model_evaluation_file, one file row at a time.  A row   *)
(* is the eight comma-separated fields of a line; the start and end fields *)
(* are decimal strings (the model fields may also be empty), the scores    *)
(* are in tenths.                                                          *)
(***************************************************************************)
MaxRows == 2

\* the decimal strings of the indices in use, and int() on them
Decimals == <<"0", "1", "2", "3">>

int(s) == (CHOOSE n \in DOMAIN Decimals : Decimals[n] = s) - 1

\* the default thresholds 2.5 and 0.5 of lines 22-23, in tenths
osw_threshold == 25

mod_threshold == 5

\* seq_source.split('_')[-2] on a source of the parts run, sequence, charge
SeqOf(seq_source) == seq_source[Len(seq_source) - 1]

\* lines 8-18, on four ints
overlaps(pred_min, pred_max, target_min, target_max) ==
    \/ pred_min <= target_min /\ target_min <= pred_max /\ pred_max <= target_max
    \/ pred_min <= target_min /\ pred_max >= target_max
    \/ target_min <= pred_min /\ pred_min <= target_max /\ pred_max <= target_max
    \/ target_min <= pred_min /\ pred_min <= target_max /\ pred_max >= target_max

\* file rows: OSW intervals starting at 0 and at 1; the model interval
\* missing, starting at 0, touching [1, 2] at its end, a single point past
\* it, and one with its end field empty; scores below and at the thresholds
EvOswFields == {<<"0", "1">>, <<"1", "2">>}

EvModFields == {<<"", "">>, <<"0", "1">>, <<"2", "3">>, <<"3", "3">>, <<"1", "">>}

EvLines(chrom_id) ==
    {[chrom_id |-> chrom_id, seq_source |-> <<"run", "PEPA", "2">>,
      osw_start |-> o[1], osw_end |-> o[2], mod_start |-> m[1], mod_end |-> m[2],
      osw_score |-> os, mod_score |-> ms] :
        o \in EvOswFields, m \in EvModFields,
        os \in {osw_threshold - 1, osw_threshold}, ms \in {mod_threshold - 1, mod_threshold}}
    \cup {[chrom_id |-> chrom_id, seq_source |-> <<"run", "PEPX", "2">>,
           osw_start |-> "1", osw_end |-> "2", mod_start |-> "2", mod_end |-> "3",
           osw_score |-> osw_threshold, mod_score |-> mod_threshold]}

\* the row appended to one of the four lists
EvEntry(chrom_id, osw_start, osw_end, mod_start, mod_end) ==
    <<chrom_id, osw_start, osw_end, mod_start, mod_end>>

\* a mutation of the counting: a false negative is given target 0
EvCount_fn_zero(e, class, entry, t) ==
    [e EXCEPT !.mod_stats[class] = @ + 1,
              !.mod_tp = IF class = "tp" THEN Append(@, entry) ELSE @,
              !.mod_fp = IF class = "fp" THEN Append(@, entry) ELSE @,
              !.mod_tn = IF class = "tn" THEN Append(@, entry) ELSE @,
              !.mod_fn = IF class = "fn" THEN Append(@, entry) ELSE @,
              !.target = Append(@, 0)]

\* lines 92-100, 102-110, 112-120, 123-131, 133-141: count, list and target
EvCount(e, class, entry, t) ==
    [e EXCEPT !.mod_stats[class] = @ + 1,
              !.mod_tp = IF class = "tp" THEN Append(@, entry) ELSE @,
              !.mod_fp = IF class = "fp" THEN Append(@, entry) ELSE @,
              !.mod_tn = IF class = "tn" THEN Append(@, entry) ELSE @,
              !.mod_fn = IF class = "fn" THEN Append(@, entry) ELSE @,
              !.target = Append(@, t)]

\* lines 46-141: the loop body on one line.  With mod_end None the
\* comparisons of overlaps reach `<= None` or `>= None` on every path
\* (pred_min <= target_min leads to pred_max against target_max, and
\* otherwise target_min <= pred_min leads to pred_min against target_max),
\* which is a TypeError.
EvBody(e0, line) ==
    LET e == [e0 EXCEPT !.lines = Append(@, line)]
    IN
    IF SeqOf(line.seq_source) \in e.exclude THEN e
    ELSE
    LET osw_start_0 == PyInt(int(line.osw_start))
        osw_end_0   == PyInt(int(line.osw_end))
        mod_start_0 == IF line.mod_start # "" THEN PyInt(int(line.mod_start)) ELSE None
        mod_end_0   == IF line.mod_end # "" THEN PyInt(int(line.mod_end)) ELSE None
        short       == /\ Truthy(mod_start_0) /\ Truthy(mod_end_0)
                       /\ (mod_end_0[1] - mod_start_0[1] + 1) < e.mod_min_pts
        mod_start_1 == IF short THEN None ELSE mod_start_0
        mod_end_1   == IF short THEN None ELSE mod_end_0
        e1          == [e EXCEPT !.osw_scores = Append(@, line.osw_score),
                                 !.pred = Append(@, line.mod_score)]
        osw_start   == IF line.osw_score < osw_threshold THEN None ELSE osw_start_0
        osw_end     == IF line.osw_score < osw_threshold THEN None ELSE osw_end_0
        mod_start   == IF line.mod_score < mod_threshold THEN None ELSE mod_start_1
        mod_end     == IF line.mod_score < mod_threshold THEN None ELSE mod_end_1
        entry       == EvEntry(line.chrom_id, osw_start, osw_end, mod_start, mod_end)
    IN  IF ~Truthy(osw_start) /\ Truthy(mod_start) THEN EvCount(e1, "fp", entry, 0)
        ELSE IF Truthy(osw_start) /\ ~Truthy(mod_start) THEN EvCount(e1, "fn", entry, 1)
        ELSE IF ~Truthy(osw_start) /\ ~Truthy(mod_start) THEN EvCount(e1, "tn", entry, 0)
        ELSE IF mod_end = None
             THEN [e1 EXCEPT !.pc = "raised", !.error = "TypeError"]
        ELSE IF overlaps(osw_start[1], osw_end[1], mod_start[1], mod_end[1])
             THEN EvCount(e1, "tp", entry, 1)
             ELSE EvCount(e1, "fp", entry, 0)

EvInit ==
    /\ globals = [out_channels |-> TRUE, init_error |-> "none"]
    /\ self = NoInstance
    /\ fwd = FwdIdle
    /\ dec = DecIdle
    /\ tgt = TgtIdle
    /\ lossc = LossIdle
    /\ ev = EvIdle
    /\ cnn = CnnIdle

\* lines 26-41: the exclusions are read and the counts and lists start empty
EvCall ==
    /\ ev.pc = "idle"
    /\ \E exclude \in {{}, {"PEPX"}}, mod_min_pts \in 1..2 :
          ev' = [EvIdle EXCEPT !.pc = "loop", !.exclude = exclude,
                               !.mod_min_pts = mod_min_pts]
    /\ UNCHANGED <<globals, self, fwd, dec, tgt, lossc, cnn>>

\* lines 45-141: one more line of the file
EvLine ==
    /\ ev.pc = "loop"
    /\ Len(ev.lines) < MaxRows
    /\ \E line \in EvLines(Len(ev.lines) + 1) : ev' = EvBody(ev, line)
    /\ UNCHANGED <<globals, self, fwd, dec, tgt, lossc, cnn>>

\* lines 143-145: the file is at its end
EvReturn ==
    /\ ev.pc = "loop"
    /\ ev' = [ev EXCEPT !.pc = "returned"]
    /\ UNCHANGED <<globals, self, fwd, dec, tgt, lossc, cnn>>

EvalNext == EvCall \/ EvLine \/ EvReturn

EvalSpec == EvInit /\ [][EvalNext]_vars

\* the lines processed so far whose sequence is not excluded, in file order
EvIncluded == SelectSeq(ev.lines, LAMBDA r : SeqOf(r.seq_source) \notin ev.exclude)

\* the chrom_ids in one of the four lists
EvIds(list) == {list[k][1] : k \in DOMAIN list}

Max2(a, b) == IF a >= b THEN a ELSE b

\* a row that is a true positive by its fields: both scores at or above
\* their thresholds, a model interval of at least mod_min_pts points, and
\* the two closed intervals sharing an index
EvIsTruePositive(r) ==
    /\ r.osw_score >= osw_threshold
    /\ r.mod_score >= mod_threshold
    /\ r.mod_start # "" /\ r.mod_end # ""
    /\ int(r.mod_end) - int(r.mod_start) + 1 >= ev.mod_min_pts
    /\ Max2(int(r.osw_start), int(r.mod_start)) <= Min2(int(r.osw_end), int(r.mod_end))

\* C17: a non-excluded row is in the true positives exactly when its fields
\* make it one, whatever its start indices are (0 included), and overlaps
\* gives the same answer with its two intervals swapped.
C17_TruePositiveExactly ==
    ev.pc \in {"loop", "returned"} =>
        \A k \in DOMAIN EvIncluded :
            LET r == EvIncluded[k]
            IN  /\ r.chrom_id \in EvIds(ev.mod_tp) <=> EvIsTruePositive(r)
                /\ (r.mod_start # "" /\ r.mod_end # "") =>
                       overlaps(int(r.osw_start), int(r.osw_end), int(r.mod_start), int(r.mod_end))
                         = overlaps(int(r.mod_start), int(r.mod_end), int(r.osw_start), int(r.osw_end))

\* C18: after every processed prefix of the file, the four counts add up to
\* the number of non-excluded rows and to the lengths of target, pred and
\* osw_scores, each count is the length of its list, every non-excluded row
\* is in exactly one list and no excluded row is in any, and target[i] is 1
\* exactly when the i-th non-excluded row is in mod_tp or mod_fn.
C18_FourClassPartition ==
    ev.pc \in {"loop", "returned"} =>
        LET n == Len(EvIncluded)
            s == ev.mod_stats
            lists == <<ev.mod_tp, ev.mod_fp, ev.mod_tn, ev.mod_fn>>
        IN  /\ s.tp + s.fp + s.tn + s.fn = n
            /\ Len(ev.target) = n /\ Len(ev.pred) = n /\ Len(ev.osw_scores) = n
            /\ s.tp = Len(ev.mod_tp) /\ s.fp = Len(ev.mod_fp)
            /\ s.tn = Len(ev.mod_tn) /\ s.fn = Len(ev.mod_fn)
            /\ \A k \in 1..n :
                  /\ Cardinality({c \in 1..4 : EvIncluded[k].chrom_id \in EvIds(lists[c])}) = 1
                  /\ ev.target[k] \in {0, 1}
                  /\ ev.target[k] = 1 <=>
                        EvIncluded[k].chrom_id \in EvIds(ev.mod_tp) \cup EvIds(ev.mod_fn)
            /\ \A c \in 1..4 :
                  EvIds(lists[c]) \subseteq {EvIncluded[k].chrom_id : k \in 1..n}

C18_Witness ==
    /\ ev.pc = "returned" /\ Len(ev.lines) = 2 /\ Len(EvIncluded) = 1
    /\ SeqOf(ev.lines[1].seq_source) \in ev.exclude
    /\ ev.mod_stats.fn = 1 /\ ev.target = <<1>>

(***************************************************************************)
(* CnnSpec: get_cnn_data, one precursor (one iteration of the loops of     *)
(* lines 364 and 379) at a time.  A precursor is given by what the         *)
(* databases hold for it: whether exp_rt and delta_rt are there, whether   *)
(* its transitions have chromatograms, the number of time points and the   *)
(* index bisect gives exp_rt among them.                                   *)
(***************************************************************************)
MaxPrecursors == 3

WindowSizes == {-1, 3}

CnnPrecursors ==
    {[rt |-> FALSE, found |-> TRUE, len_times |-> 4, exp_rt_idx |-> 2],
     [rt |-> TRUE, found |-> FALSE, len_times |-> 4, exp_rt_idx |-> 2],
     [rt |-> TRUE, found |-> TRUE, len_times |-> 4, exp_rt_idx |-> 2],
     [rt |-> TRUE, found |-> TRUE, len_times |-> 4, exp_rt_idx |-> 0],
     [rt |-> TRUE, found |-> TRUE, len_times |-> 2, exp_rt_idx |-> 1]}

\* the number of columns of m[:, left:right] for a matrix of n columns
SliceLen(n, left, right) ==
    LET lo == IF left < 0 THEN Max2(n + left, 0) ELSE Min2(left, n)
        hi == IF right < 0 THEN Max2(n + right, 0) ELSE Min2(right, n)
    IN  Max2(hi - lo, 0)

\* lines 265-277 of create_data_from_transition_ids: the columns left by
\* the window around exp_rt
WindowCols(len_times, exp_rt_idx, window_size) ==
    LET half_span == window_size \div 2
        left_0  == exp_rt_idx - half_span
        right_0 == exp_rt_idx + half_span + 1
        left    == IF left_0 < 0 THEN 0
                   ELSE IF right_0 >= len_times THEN len_times - window_size
                   ELSE left_0
        right   == IF left_0 < 0 THEN window_size ELSE right_0
    IN  SliceLen(len_times, left, right)

\* create_data_from_transition_ids, lines 166-169 and 265-330: -1 when the
\* precursor is skipped, else the number of labels of the row it returns
create_data_from_transition_ids(p, csv_only, window_size) ==
    IF ~p.found THEN -1
    ELSE IF csv_only \/ window_size < 0 THEN p.len_times
    ELSE IF WindowCols(p.len_times, p.exp_rt_idx, window_size) # window_size THEN -1
    ELSE window_size

\* a mutation of the skip: the skipped precursor uses up an ID
CnnSkip_consumes_id(c) == [c EXCEPT !.chromatogram_id = @ + 1]

\* `continue` (lines 407, 444): on to the next precursor, nothing written
CnnSkip(c) == c

CnnRaise(c, error, line) == [c EXCEPT !.pc = "raised", !.error = error, !.line = line]

\* lines 446-460: the label row, the CSV row and the next ID
CnnWrite(c, prec, labels) ==
    [c EXCEPT !.label_matrix = IF ~c.csv_only /\ c.scored
                               THEN Append(@, [prec |-> prec, cols |-> labels]) ELSE @,
              !.chromatograms_csv = Append(@, [ID |-> c.chromatogram_id, prec |-> prec,
                                               window_size |-> c.window_size]),
              !.chromatogram_id = @ + 1]

\* lines 380-460: the loop body for precursor p.  chromatogram_filename is
\* first bound on line 419 and is read by the message of line 405;
\* left_width is bound on line 397 or 414 only and is read on line 432.
CnnBody(c0, p) ==
    LET c    == [c0 EXCEPT !.precs = Append(@, p)]
        prec == Len(c.precs)
        cf   == [c EXCEPT !.filename_bound = TRUE]
    IN  IF c.use_rt /\ c.scored /\ ~p.rt
        THEN IF c.filename_bound THEN CnnSkip(c)
             ELSE CnnRaise(c, "UnboundLocalError", 405)
        ELSE IF ~(c.use_rt /\ c.scored) /\ c.window_size # -1
        THEN CnnRaise(c, "AssertionError", 409)
        ELSE IF ~c.scored THEN CnnWrite(cf, prec, 0)
        ELSE IF ~c.use_rt THEN CnnRaise(cf, "UnboundLocalError", 432)
        ELSE LET labels == create_data_from_transition_ids(p, c.csv_only, c.window_size)
             IN  IF labels = -1 THEN CnnSkip(cf) ELSE CnnWrite(cf, prec, labels)

CnnInit ==
    /\ globals = [out_channels |-> TRUE, init_error |-> "none"]
    /\ self = NoInstance
    /\ fwd = FwdIdle
    /\ dec = DecIdle
    /\ tgt = TgtIdle
    /\ lossc = LossIdle
    /\ ev = EvIdle
    /\ cnn = CnnIdle

\* lines 332-362
CnnCall ==
    /\ cnn.pc = "idle"
    /\ \E use_rt \in BOOLEAN, scored \in BOOLEAN, csv_only \in BOOLEAN, window_size \in WindowSizes :
          cnn' = [CnnIdle EXCEPT !.pc = "loop", !.use_rt = use_rt, !.scored = scored,
                                 !.csv_only = csv_only, !.window_size = window_size]
    /\ UNCHANGED <<globals, self, fwd, dec, tgt, lossc, ev>>

\* one iteration of the loop of line 379
CnnIteration ==
    /\ cnn.pc = "loop"
    /\ Len(cnn.precs) < MaxPrecursors
    /\ \E p \in CnnPrecursors : cnn' = CnnBody(cnn, p)
    /\ UNCHANGED <<globals, self, fwd, dec, tgt, lossc, ev>>

\* lines 462-486: np.vstack needs at least one row, and rows of one length
CnnReturn ==
    /\ cnn.pc = "loop"
    /\ cnn' = IF /\ ~cnn.csv_only /\ cnn.scored
                 /\ \/ cnn.label_matrix = <<>>
                    \/ \E a, b \in DOMAIN cnn.label_matrix :
                          cnn.label_matrix[a].cols # cnn.label_matrix[b].cols
              THEN CnnRaise(cnn, "ValueError", 467)
              ELSE [cnn EXCEPT !.pc = "returned"]
    /\ UNCHANGED <<globals, self, fwd, dec, tgt, lossc, ev>>

CnnNext == CnnCall \/ CnnIteration \/ CnnReturn

CnnSpec == CnnInit /\ [][CnnNext]_vars

\* the precursors of the call that the loop skipped: missing retention
\* time, no transitions found, or a window of the wrong shape
CnnSkipped ==
    {k \in DOMAIN cnn.precs :
        /\ cnn.use_rt /\ cnn.scored
        /\ \/ ~cnn.precs[k].rt
           \/ create_data_from_transition_ids(cnn.precs[k], cnn.csv_only, cnn.window_size) = -1}

\* C19: at the end of every iteration the IDs written are 0, 1, ..., n-1 in
\* row order with n = chromatogram_id = number of CSV rows; when scored and
\* not csv_only the label matrix has n rows, row i for the chromatogram
\* with ID i; and the skipped precursors have no CSV row and no label row.
C19_IdsDense ==
    cnn.pc \in {"loop", "returned"} =>
        LET csv == cnn.chromatograms_csv
            n   == Len(csv)
        IN  /\ cnn.chromatogram_id = n
            /\ \A k \in 1..n : csv[k].ID = k - 1
            /\ (cnn.scored /\ ~cnn.csv_only) =>
                  /\ Len(cnn.label_matrix) = n
                  /\ \A k \in 1..n : cnn.label_matrix[k].prec = csv[k].prec
            /\ {csv[k].prec : k \in 1..n} = DOMAIN cnn.precs \ CnnSkipped
            /\ \A k \in DOMAIN cnn.label_matrix : cnn.label_matrix[k].prec \notin CnnSkipped

C19_Witness ==
    /\ cnn.pc = "returned" /\ cnn.scored /\ ~cnn.csv_only /\ cnn.window_size = 3
    /\ Len(cnn.precs) = 3 /\ ~cnn.precs[2].rt /\ CnnSkipped = {2}
    /\ Len(cnn.chromatograms_csv) = 2 /\ cnn.chromatograms_csv[2].prec = 3
    /\ cnn.chromatograms_csv[2].ID = 1 /\ Len(cnn.label_matrix) = 2

====
